---- MODULE Spec2Model ----
(***************************************************************************)
(* Verification model of the "Coding for Economists" book sources:        *)
(*   - the notebook chapters (Modelling with RBC, Time Series,            *)
(*     Exploratory Data Analysis) as lists of cells that a kernel runs    *)
(*     top to bottom, one kernel (namespace) per chapter;                 *)
(*   - the data-handling steps of the chapters whose results the prose    *)
(*     describes (date-code conversion, report input selection,           *)
(*     inflation adjustment, cross-correlation function).                 *)
(***************************************************************************)
EXTENDS Integers, Sequences, FiniteSets, TLC

VARIABLES
    pc,         \* book: per chapter, index of the next cell to run
    env,        \* book: per chapter, the names bound in its kernel namespace
    status,     \* book: per chapter, "running" | "done" | "error"
    nb,         \* book: per chapter, the notebook document (format, cell metadata)
    hook_ran,   \* book: whether the nbstripout pre-commit hook has run
    eda_pc,     \* EDA chapter: the step of the df pipeline reached
    csv_code,   \* EDA chapter: the Date code (day counter) of the csv row
    cal,        \* EDA chapter: the calendar date that the Date code stands for
    df,         \* EDA chapter: the dataframe df (column labels, one row)
    report,     \* EDA chapter: the column labels handed to create_report
    infl_pc,    \* Time Series chapter: "loaded" | "adjusted"
    cdf,        \* Time Series chapter: the dataframe cdf, column -> year -> value
    ccf_pc,     \* Time Series chapter: "call" | "returned"
    ccf_x,      \* Time Series chapter: first argument of ccf_stats
    ccf_y,      \* Time Series chapter: second argument of ccf_stats
    lag_max,    \* Time Series chapter: <<>> (None) or <<k>>
    ccf_res,    \* Time Series chapter: the value ccf_stats returned
    gdp_pc,     \* Time Series chapter: per run, "loaded" | "demeaned" | "real_time"
    gdp_df,     \* Time Series chapter: per run, the GDP dataframe, column -> values
    vac_pc,     \* Time Series chapter: the step of the vacancies pipeline reached
    vac_raw,    \* Time Series chapter: the "months" records of the ONS response
    vac_df,     \* Time Series chapter: the vacancies dataframe (columns, index, data)
    lab_pc,     \* column labels: per chapter, the next operation on df
    lab_df,     \* column labels: per chapter, the column labels of df
    lab_err,    \* column labels: per chapter, <<>> or the line that raised KeyError
    rng_pc,     \* random numbers: per run, index of the next Time Series cell
    rng,        \* random numbers: per run, the generator prng and the sample data
    entropy,    \* random numbers: per run, what the operating system would seed with
    md_pc,      \* common-plots.md: the next line to read
    md_stack,   \* common-plots.md: the fences that are open, outermost first
    md_bad,     \* common-plots.md: the problems found so far
    md_names,   \* common-plots.md: the names the code cells have imported
    md_glued,   \* common-plots.md: the keys stored with glue()
    toc_pc,     \* _toc.yml: the next active entry to read
    toc_seen,   \* _toc.yml: the files listed so far, in order
    toc_parts   \* _toc.yml: the parts so far with their number of chapters

bookVars == <<pc, env, status, nb, hook_ran>>
edaVars == <<eda_pc, csv_code, cal, df, report>>
inflVars == <<infl_pc, cdf>>
ccfVars == <<ccf_pc, ccf_x, ccf_y, lag_max, ccf_res>>
gdpVars == <<gdp_pc, gdp_df>>
vacVars == <<vac_pc, vac_raw, vac_df>>
labVars == <<lab_pc, lab_df, lab_err>>
rngVars == <<rng_pc, rng, entropy>>
mdVars == <<md_pc, md_stack, md_bad, md_names, md_glued>>
tocVars == <<toc_pc, toc_seen, toc_parts>>
moreVars == <<gdpVars, vacVars, labVars, rngVars, mdVars, tocVars>>
vars == <<bookVars, edaVars, inflVars, ccfVars, moreVars>>

(***************************************************************************)
(* Notebook documents                                                      *)
(***************************************************************************)

\* One top-level statement of a code cell: the global names it reads and the
\* global names it binds (reads happen before the binds of the same statement).
S(reads, binds) == [reads |-> reads, binds |-> binds]

\* "execution_count": null / "outputs": []
Null == <<>>

\* a markdown cell: cell_type, metadata, source
MarkdownCell(first, last) ==
    [cell_type |-> "markdown",
     keys |-> {"cell_type", "metadata", "source"},
     execution_count |-> Null, outputs |-> <<>>,
     first |-> first, last |-> last, stmts |-> <<>>]

\* a code cell saved after it was run: In [1] and its output kept
CodeCellExecuted(first, last, stmts) ==
    [cell_type |-> "code",
     keys |-> {"cell_type", "execution_count", "metadata", "outputs", "source"},
     execution_count |-> <<1>>, outputs |-> <<"execute_result">>,
     first |-> first, last |-> last, stmts |-> stmts]

\* a code cell as the notebooks hold it: "execution_count": null, "outputs": []
CodeCell(first, last, stmts) ==
    [cell_type |-> "code",
     keys |-> {"cell_type", "execution_count", "metadata", "outputs", "source"},
     execution_count |-> Null, outputs |-> <<>>,
     first |-> first, last |-> last, stmts |-> stmts]

\* Cells are identified by their first and last line in the file that holds
\* the notebook.  A call of a function defined in the notebook reads the
\* globals of the function body as well (ccf_stats: np, ss;
\* convert_date_code_to_datetime: pd).  lambda_values stands for the
\* identifier spelled with a Greek lambda.
RBC_cells ==
  <<
    MarkdownCell(39, 45),
    MarkdownCell(46, 54),
    CodeCell(55, 77, <<
        S({}, {"np"}),
        S({}, {"plt"}),
        S({}, {"smf"}),
        S({}, {"sympy.*"}),
        S({}, {"Generator", "PCG64"}),
        S({"pd"}, {}),
        S({"plt"}, {}),
        S({}, {"seed_for_prng"}),
        S({"Generator", "PCG64", "seed_for_prng"}, {"prng"}) >>),
    MarkdownCell(78, 85),
    MarkdownCell(86, 109) >>

TimeSeries_cells ==
  <<
    MarkdownCell(137, 152),
    CodeCell(153, 178, <<
        S({}, {"np"}),
        S({}, {"pd"}),
        S({}, {"sm"}),
        S({}, {"tsaplots"}),
        S({}, {"inspect"}),
        S({}, {"Generator", "PCG64"}),
        S({}, {"plt"}),
        S({"plt"}, {}),
        S({"pd"}, {}),
        S({}, {"seed_for_prng"}),
        S({"Generator", "PCG64", "seed_for_prng"}, {"prng"}) >>),
    MarkdownCell(179, 187),
    CodeCell(188, 197, <<
        S({"pd"}, {"date"}),
        S({"inspect", "date"}, {}) >>),
    MarkdownCell(198, 204),
    MarkdownCell(205, 215),
    CodeCell(216, 224, <<
        S({"date", "pd", "np"}, {}) >>),
    MarkdownCell(225, 233),
    CodeCell(234, 242, <<
        S({"pd"}, {}) >>),
    MarkdownCell(243, 249),
    CodeCell(250, 258, <<
        S({"pd"}, {}) >>),
    MarkdownCell(259, 265),
    CodeCell(266, 275, <<
        S({"pd"}, {"dti"}),
        S({"dti"}, {}) >>),
    MarkdownCell(276, 282),
    CodeCell(283, 300, <<
        S({}, {"requests"}),
        S({}, {"url"}),
        S({"pd", "requests", "url"}, {"df"}),
        S({"df", "pd"}, {}),
        S({"df"}, {"df"}),
        S({"df"}, {"df"}),
        S({"df"}, {}) >>),
    MarkdownCell(301, 307),
    CodeCell(308, 316, <<
        S({"df"}, {}) >>),
    MarkdownCell(317, 323),
    CodeCell(324, 333, <<
        S({"df", "pd"}, {}),
        S({"df"}, {}) >>),
    MarkdownCell(334, 342),
    CodeCell(343, 352, <<
        S({"pd"}, {"small_df"}),
        S({"small_df"}, {}) >>),
    MarkdownCell(353, 359),
    CodeCell(360, 368, <<
        S({"pd", "small_df"}, {}) >>),
    MarkdownCell(369, 377),
    CodeCell(378, 387, <<
        S({"df", "pd"}, {}),
        S({"df"}, {}) >>),
    MarkdownCell(388, 394),
    MarkdownCell(395, 403),
    CodeCell(404, 413, <<
        S({"df"}, {"df"}),
        S({"df"}, {}) >>),
    MarkdownCell(414, 420),
    CodeCell(421, 429, <<
        S({"df"}, {}) >>),
    MarkdownCell(430, 436),
    CodeCell(437, 446, <<
        S({"df"}, {"df"}),
        S({"df"}, {}) >>),
    MarkdownCell(447, 477),
    MarkdownCell(478, 486),
    CodeCell(487, 495, <<
        S({"df"}, {}) >>),
    MarkdownCell(496, 508),
    CodeCell(509, 517, <<
        S({"df"}, {}) >>),
    MarkdownCell(518, 524),
    CodeCell(525, 533, <<
        S({"df"}, {}) >>),
    MarkdownCell(534, 540),
    CodeCell(541, 549, <<
        S({"df"}, {}) >>),
    MarkdownCell(550, 556),
    CodeCell(557, 565, <<
        S({"df"}, {}) >>),
    MarkdownCell(566, 572),
    CodeCell(573, 585, <<
        S({}, {"web"}),
        S({"web"}, {"xf"}),
        S({"xf"}, {"xf"}) >>),
    CodeCell(586, 606, <<
        S({"plt"}, {"fig", "ax"}),
        S({"xf"}, {"data"}),
        S({"ax"}, {"cycle"}),
        S({"data", "ax"}, {}),
        S({"data", "ax", "cycle"}, {}),
        S({"data", "ax", "cycle"}, {}),
        S({"ax"}, {}),
        S({"ax"}, {}) >>),
    MarkdownCell(607, 623),
    CodeCell(624, 632, <<
        S({"df"}, {}) >>),
    MarkdownCell(633, 647),
    CodeCell(648, 656, <<
        S({"df"}, {}) >>),
    MarkdownCell(657, 663),
    CodeCell(664, 682, <<
        S({"plt"}, {"fig", "ax"}),
        S({}, {"roll_num"}),
        S({}, {"alpha"}),
        S({"xf"}, {}),
        S({"xf"}, {}),
        S({"xf", "alpha"}, {}),
        S({"xf", "roll_num"}, {}),
        S({"ax"}, {}),
        S({"ax"}, {}) >>),
    MarkdownCell(683, 691),
    CodeCell(692, 706, <<
        S({"xf"}, {"roll"}),
        S({"plt"}, {"fig", "ax"}),
        S({"roll"}, {"m"}),
        S({"m", "ax"}, {}),
        S({"ax", "m"}, {}),
        S({"ax"}, {}) >>),
    MarkdownCell(707, 715),
    CodeCell(716, 729, <<
        S({}, {"lead"}),
        S({}, {"lag"}),
        S({"df"}, {"orig_series_name"}),
        S({"df", "lead", "orig_series_name"}, {}),
        S({"df", "lag", "orig_series_name"}, {}),
        S({"df"}, {}) >>),
    CodeCell(730, 738, <<
        S({"df"}, {}) >>),
    MarkdownCell(739, 751),
    CodeCell(752, 761, <<
        S({"tsaplots", "df"}, {"fig"}),
        S({"plt"}, {}) >>),
    MarkdownCell(762, 770),
    CodeCell(771, 780, <<
        S({"tsaplots", "df"}, {"fig"}),
        S({"plt"}, {}) >>),
    MarkdownCell(781, 789),
    MarkdownCell(790, 816),
    CodeCell(817, 837, <<
        S({}, {"ss"}),
        S({}, {"ccf_stats"}) >>),
    MarkdownCell(838, 844),
    CodeCell(845, 862, <<
        S({"pd"}, {"lynx_df"}),
        S({"pd"}, {"spot_df"}),
        S({"pd", "lynx_df", "spot_df"}, {"df"}),
        S({"df"}, {"df"}),
        S({"df"}, {}) >>),
    CodeCell(863, 871, <<
        S({"df"}, {}) >>),
    MarkdownCell(872, 878),
    CodeCell(879, 901, <<
        S({"plt"}, {"fig", "ax"}),
        S({"ccf_stats", "df", "np", "ss"}, {"ccf_res_stats"}),
        S({"np", "df"}, {"conf_int"}),
        S({"ax", "ccf_res_stats"}, {}),
        S({"ax", "conf_int"}, {}),
        S({"ax", "conf_int"}, {}),
        S({"ax"}, {}),
        S({"ax"}, {}),
        S({"ax"}, {}),
        S({"plt"}, {}) >>),
    MarkdownCell(902, 908),
    MarkdownCell(909, 921),
    CodeCell(922, 937, <<
        S({}, {"web"}),
        S({}, {"datetime"}),
        S({"pd"}, {"ts_start_date"}),
        S({"web", "ts_start_date", "datetime"}, {"df"}),
        S({"df"}, {}),
        S({"df"}, {}) >>),
    MarkdownCell(938, 944),
    CodeCell(945, 956, <<
        S({"df", "np"}, {}),
        S({"df", "np"}, {}),
        S({"df", "np"}, {}),
        S({"df"}, {}) >>),
    MarkdownCell(957, 965),
    CodeCell(966, 976, <<
        S({"df"}, {}),
        S({"df"}, {}),
        S({"df"}, {}) >>),
    MarkdownCell(977, 989),
    CodeCell(990, 999, <<
        S({"df"}, {}),
        S({"df"}, {}) >>),
    MarkdownCell(1000, 1012),
    CodeCell(1013, 1022, <<
        S({"df"}, {}),
        S({"df"}, {}) >>),
    MarkdownCell(1023, 1037),
    CodeCell(1038, 1047, <<
        S({"df"}, {}),
        S({"df"}, {}) >>),
    MarkdownCell(1048, 1066),
    CodeCell(1067, 1104, <<
        S({}, {"stats"}),
        S({"prng"}, {"data"}),
        S({"stats", "data"}, {"lambda_values"}),
        S({"lambda_values"}, {"num_plots"}),
        S({"np"}, {"x"}),
        S({}, {"bins"}),
        S({"plt", "num_plots"}, {"fig", "axes"}),
        S({"axes"}, {"axes"}),
        S({"axes", "stats", "data", "lambda_values", "bins", "x"}, {"i", "ax", "values", "title", "mu", "std", "p"}),
        S({"axes", "data", "bins"}, {}),
        S({"axes"}, {}),
        S({"axes"}, {}),
        S({"plt"}, {}),
        S({"plt"}, {}),
        S({"plt"}, {}) >>),
    MarkdownCell(1105, 1111),
    MarkdownCell(1112, 1128),
    CodeCell(1129, 1160, <<
        S({}, {"fred_codes"}),
        S({"pd", "fred_codes", "web"}, {"cdf"}),
        S({"cdf"}, {}) >>),
    CodeCell(1161, 1177, <<
        S({"cdf"}, {}),
        S({"plt"}, {"fig", "ax"}),
        S({"ax", "cdf"}, {}),
        S({"ax", "cdf"}, {}),
        S({"ax"}, {}),
        S({"ax"}, {}),
        S({"plt"}, {}) >>),
    MarkdownCell(1178, 1184) >>

EDA_cells ==
  <<
    MarkdownCell(3, 16),
    CodeCell(17, 33, <<
        S({}, {"pd"}),
        S({}, {"plt"}),
        S({}, {"np"}),
        S({}, {"islice"}),
        S({"plt"}, {}) >>),
    MarkdownCell(34, 42),
    CodeCell(43, 55, <<
        S({"pd"}, {"df"}),
        S({"df"}, {}) >>),
    MarkdownCell(56, 66),
    CodeCell(67, 82, <<
        S({}, {"convert_date_code_to_datetime"}),
        S({"df", "convert_date_code_to_datetime", "pd"}, {}),
        S({"df"}, {}) >>),
    MarkdownCell(83, 91),
    CodeCell(92, 100, <<
        S({"df"}, {}) >>),
    MarkdownCell(101, 107),
    CodeCell(108, 123, <<
        S({"df"}, {"df"}),
        S({"df"}, {}) >>),
    MarkdownCell(124, 133),
    CodeCell(134, 145, <<
        S({}, {"clean_headers"}),
        S({"clean_headers", "df"}, {"df"}),
        S({"df"}, {}) >>),
    MarkdownCell(146, 152),
    MarkdownCell(153, 165),
    CodeCell(166, 174, <<
        S({"df"}, {}) >>),
    MarkdownCell(175, 181),
    CodeCell(182, 191, <<
        S({"df"}, {"sum_table"}),
        S({"sum_table"}, {}) >>),
    MarkdownCell(192, 198),
    CodeCell(199, 208, <<
        S({"sum_table"}, {"sum_table"}),
        S({"sum_table"}, {}) >>),
    MarkdownCell(209, 215),
    CodeCell(216, 224, <<
        S({"sum_table"}, {}) >>),
    MarkdownCell(225, 231),
    CodeCell(232, 240, <<
        S({"sum_table"}, {}) >>),
    MarkdownCell(241, 247),
    CodeCell(248, 256, <<
        S({"sum_table"}, {}) >>),
    MarkdownCell(257, 263),
    CodeCell(264, 272, <<
        S({"sum_table"}, {}) >>),
    MarkdownCell(273, 291),
    CodeCell(292, 308, <<
        S({"df"}, {}) >>),
    MarkdownCell(309, 319),
    CodeCell(320, 328, <<
        S({"pd", "df"}, {}) >>),
    MarkdownCell(329, 339),
    CodeCell(340, 352, <<
        S({"df"}, {}) >>),
    MarkdownCell(353, 359),
    CodeCell(360, 368, <<
        S({"df"}, {}) >>),
    MarkdownCell(369, 375),
    CodeCell(376, 384, <<
        S({"df"}, {}) >>),
    MarkdownCell(385, 391),
    MarkdownCell(392, 400),
    CodeCell(401, 419, <<
        S({"df", "pd"}, {}) >>),
    MarkdownCell(420, 426),
    CodeCell(427, 441, <<
        S({"df", "pd"}, {}) >>),
    MarkdownCell(442, 450),
    CodeCell(451, 459, <<
        S({"df"}, {}) >>),
    MarkdownCell(460, 466),
    CodeCell(467, 475, <<
        S({"df"}, {}) >>),
    MarkdownCell(476, 485),
    CodeCell(486, 494, <<
        S({"df"}, {}) >>),
    MarkdownCell(495, 501),
    CodeCell(502, 510, <<
        S({"df"}, {}) >>),
    CodeCell(511, 527, <<
        S({"df", "pd", "np"}, {}),
        S({"df", "pd"}, {}) >>),
    MarkdownCell(528, 534),
    CodeCell(535, 543, <<
        S({"df"}, {}) >>),
    MarkdownCell(544, 550),
    CodeCell(551, 566, <<
        S({"df"}, {}) >>),
    MarkdownCell(567, 577),
    CodeCell(578, 592, <<
        S({}, {"ProfileReport"}),
        S({"ProfileReport", "df"}, {"profile"}),
        S({"profile"}, {}) >>),
    MarkdownCell(593, 605),
    MarkdownCell(606, 616),
    CodeCell(617, 627, <<
        S({}, {"create_report"}),
        S({"create_report", "df"}, {"report"}) >>),
    CodeCell(628, 639, <<
        S({}, {"display"}),
        S({"display", "report"}, {}) >>),
    MarkdownCell(640, 648) >>

(***************************************************************************)
(* The book: chapters and their execution                                  *)
(***************************************************************************)

Chapters == {"rbc", "time-series", "data-exploratory-analysis"}

Cells(ch) ==
    CASE ch = "rbc" -> RBC_cells
      [] ch = "time-series" -> TimeSeries_cells
      [] ch = "data-exploratory-analysis" -> EDA_cells

\* a notebook saved in the older format 3
NbFormatV3(ch) == 3

\* "nbformat" of the notebook document
NbFormat(ch) ==
    CASE ch = "rbc" -> 4
      [] ch = "time-series" -> 4
      [] ch = "data-exploratory-analysis" -> 4

\* What the notebook file stores about a cell besides its source text.
CellMeta(c) ==
    [cell_type |-> c.cell_type, keys |-> c.keys,
     execution_count |-> c.execution_count, outputs |-> c.outputs]

Notebook(ch) ==
    [nbformat |-> NbFormat(ch),
     cells |-> [i \in 1..Len(Cells(ch)) |-> CellMeta(Cells(ch)[i])]]

\* one kernel for the whole book: every chapter sees every bound name
NamespaceShared(ch, e) == UNION {e[c] : c \in Chapters}

\* The namespace a chapter's cells are run in: the chapter's own kernel.
Namespace(ch, e) == e[ch]

\* Run the statements i.. of a cell in order against the bound names; a
\* statement that reads an unbound name raises NameError and ends the cell.
RECURSIVE RunStmts(_, _, _)
RunStmts(stmts, i, names) ==
    IF i > Len(stmts) THEN [names |-> names, ok |-> TRUE]
    ELSE IF stmts[i].reads \subseteq names
         THEN RunStmts(stmts, i + 1, names \cup stmts[i].binds)
         ELSE [names |-> names, ok |-> FALSE]

\* One step of a kernel over a notebook: markdown cells are skipped, code
\* cells are run; the first error stops the chapter.
StepCell(cells, k, names) ==
    LET c == cells[k]
        r == IF c.cell_type = "code" THEN RunStmts(c.stmts, 1, names)
             ELSE [names |-> names, ok |-> TRUE]
    IN  [pc |-> IF r.ok THEN k + 1 ELSE k,
         env |-> r.names,
         status |-> IF ~r.ok THEN "error"
                    ELSE IF k + 1 > Len(cells) THEN "done" ELSE "running"]

ExecCell(ch) ==
    /\ status[ch] = "running"
    /\ pc[ch] <= Len(Cells(ch))
    /\ LET r == StepCell(Cells(ch), pc[ch], Namespace(ch, env))
       IN  /\ pc' = [pc EXCEPT ![ch] = r.pc]
           /\ env' = [env EXCEPT ![ch] = r.env]
           /\ status' = [status EXCEPT ![ch] = r.status]
    /\ UNCHANGED <<nb, hook_ran, edaVars, inflVars, ccfVars, moreVars>>

\* nbstripout: strip output from a notebook cell
StripCell(c) ==
    IF c.cell_type = "code"
    THEN [c EXCEPT !.outputs = <<>>, !.execution_count = Null]
    ELSE c

\* The nbstripout pre-commit hook, run over every notebook (types: [jupyter]).
NbStripout ==
    /\ ~hook_ran
    /\ hook_ran' = TRUE
    /\ nb' = [ch \in Chapters |->
                [nb[ch] EXCEPT !.cells = [i \in DOMAIN @ |-> StripCell(@[i])]]]
    /\ UNCHANGED <<pc, env, status, edaVars, inflVars, ccfVars, moreVars>>

BookStart ==
    /\ pc = [ch \in Chapters |-> 1]
    /\ env = [ch \in Chapters |-> {}]
    /\ status = [ch \in Chapters |-> "running"]
    /\ nb = [ch \in Chapters |-> Notebook(ch)]
    /\ hook_ran = FALSE

NextBook ==
    \/ \E ch \in Chapters : ExecCell(ch)
    \/ NbStripout


\* The outcome of one chapter run alone, top to bottom, in a fresh kernel.
RECURSIVE SoloRun(_, _, _)
SoloRun(cells, k, names) ==
    IF k > Len(cells) THEN [pc |-> k, env |-> names, status |-> "done"]
    ELSE LET r == StepCell(cells, k, names)
         IN  IF r.status = "running" THEN SoloRun(cells, r.pc, r.env) ELSE r

Outcome(ch) == [pc |-> pc[ch], env |-> env[ch], status |-> status[ch]]

\* C2: executing the cells of each chapter top to bottom from a fresh
\* interpreter, no cell raises an error (no cell reads an unbound name).
C2_NoCellRaises == \A ch \in Chapters : status[ch] # "error"

C4_OutputsStripped ==
    \A ch \in Chapters :
        /\ \A i \in DOMAIN nb[ch].cells :
             nb[ch].cells[i].cell_type = "code" =>
                /\ nb[ch].cells[i].outputs = <<>>
                /\ nb[ch].cells[i].execution_count = Null
        /\ nb[ch].cells = [i \in DOMAIN nb[ch].cells |-> StripCell(nb[ch].cells[i])]

\* The hook has run over notebooks that hold code cells.
C4_Witness ==
    /\ hook_ran
    /\ \A ch \in Chapters :
         \E i \in DOMAIN nb[ch].cells : nb[ch].cells[i].cell_type = "code"

\* C5: every notebook chapter is a notebook-format-4 document with a list of
\* cells, each a markdown cell or a code cell, and every code cell carries a
\* source, an outputs list and an execution_count.
C5_NotebooksValid ==
    \A ch \in Chapters :
        /\ nb[ch].nbformat = 4
        /\ \A i \in DOMAIN nb[ch].cells :
             LET c == nb[ch].cells[i]
             IN  /\ c.cell_type \in {"markdown", "code"}
                 /\ "source" \in c.keys
                 /\ c.cell_type = "code" =>
                      {"source", "outputs", "execution_count"} \subseteq c.keys

\* All three notebooks have been read to their last cell or to an error.
C5_Witness ==
    /\ \A ch \in Chapters : status[ch] # "running"
    /\ \A ch \in Chapters : Len(nb[ch].cells) >= 5

(***************************************************************************)
(* Exploratory Data Analysis chapter: the dataframe df                     *)
(***************************************************************************)

\* Bounds on the day counter of the Date column explored by the model
\* (the data run from 2005 to the end of 2015; codes before the start code
\* are explored as well).
MaxDaysAfter == 4100
MaxDaysBefore == 400

\* Header of GrinnellHouses.csv after index_col=0 (the columns the notebook
\* names, in file order).
GrinnellColumns ==
    <<"Date", "Address", "Bedrooms", "Baths", "SquareFeet", "LotSize",
      "YearBuilt", "YearSold", "MonthSold", "DaySold", "CostPerSqFt",
      "OrigPrice", "ListPrice", "SalePrice", "SPLPPct">>

\* --- calendar ---------------------------------------------------------

IsLeap(y) == (y % 4 = 0 /\ y % 100 # 0) \/ y % 400 = 0

DaysInMonth(y, m) ==
    IF m = 2 THEN (IF IsLeap(y) THEN 29 ELSE 28)
    ELSE IF m \in {4, 6, 9, 11} THEN 30 ELSE 31

\* The calendar day after / before a calendar day.
NextDay(c) ==
    IF c.d < DaysInMonth(c.y, c.m) THEN [c EXCEPT !.d = c.d + 1]
    ELSE IF c.m < 12 THEN [y |-> c.y, m |-> c.m + 1, d |-> 1]
    ELSE [y |-> c.y + 1, m |-> 1, d |-> 1]

PrevDay(c) ==
    IF c.d > 1 THEN [c EXCEPT !.d = c.d - 1]
    ELSE IF c.m > 1 THEN [y |-> c.y, m |-> c.m - 1, d |-> DaysInMonth(c.y, c.m - 1)]
    ELSE [y |-> c.y - 1, m |-> 12, d |-> 31]

\* A pandas Timestamp at midnight, held as whole days since 1970-01-01.
DaysFromCivil(y, m, d) ==
    LET yy == IF m <= 2 THEN y - 1 ELSE y
        era == yy \div 400
        yoe == yy - era * 400
        mp == (m + 9) % 12
        doy == (153 * mp + 2) \div 5 + d - 1
        doe == yoe * 365 + yoe \div 4 - yoe \div 100 + doy
    IN  era * 146097 + doe - 719468

\* The year, month and day fields of a Timestamp.
CivilFromDays(z) ==
    LET zz == z + 719468
        era == zz \div 146097
        doe == zz - era * 146097
        yoe == (doe - doe \div 1460 + doe \div 36524 - doe \div 146096) \div 365
        doy == doe - (365 * yoe + yoe \div 4 - yoe \div 100)
        mp == (5 * doy + 2) \div 153
        d == doy - (153 * mp + 2) \div 5 + 1
        m == IF mp < 10 THEN mp + 3 ELSE mp - 9
    IN  [y |-> IF m <= 2 THEN yoe + era * 400 + 1 ELSE yoe + era * 400,
         m |-> m, d |-> d]

\* pd.to_datetime of a "MM-DD-YYYY" string (month first by default).
to_datetime(mm, dd, yyyy) == DaysFromCivil(yyyy, mm, dd)

\* Timestamp + pd.DateOffset(days=n)
DateOffsetDays(ts, n) == ts + n

\* start_code = 16436
start_code == 16436

\* the conversion with the start code taken as day 1 instead of day 0
convert_date_code_to_datetime_off_by_one(date) ==
    DateOffsetDays(to_datetime(1, 1, 2005), date - start_code + 1)

\* pd.to_datetime("01-01-2005") + pd.DateOffset(days=date - start_code)
convert_date_code_to_datetime(date) ==
    DateOffsetDays(to_datetime(1, 1, 2005), date - start_code)

\* --- slicing ----------------------------------------------------------

\* Python's s[start:stop] on a sequence (step 1), negative indices counted
\* from the end and out-of-range indices clamped.
PyIndex(i, n) ==
    LET j == IF i < 0 THEN i + n ELSE i
    IN  IF j < 0 THEN 0 ELSE IF j > n THEN n ELSE j

PySlice(s, start, stop) ==
    LET lo == PyIndex(start, Len(s))
        hi == PyIndex(stop, Len(s))
    IN  IF lo < hi THEN SubSeq(s, lo + 1, hi) ELSE <<>>

\* --- the dataframe ----------------------------------------------------

\* Column labels left as they are.
SnakeCaseNone(name) == name

\* The snake-case form dataprep gives a column label.
SnakeCase(name) ==
    CASE name = "Date" -> "date"
      [] name = "Address" -> "address"
      [] name = "Bedrooms" -> "bedrooms"
      [] name = "Baths" -> "baths"
      [] name = "SquareFeet" -> "square_feet"
      [] name = "LotSize" -> "lot_size"
      [] name = "YearBuilt" -> "year_built"
      [] name = "YearSold" -> "year_sold"
      [] name = "MonthSold" -> "month_sold"
      [] name = "DaySold" -> "day_sold"
      [] name = "CostPerSqFt" -> "cost_per_sq_ft"
      [] name = "OrigPrice" -> "orig_price"
      [] name = "ListPrice" -> "list_price"
      [] name = "SalePrice" -> "sale_price"
      [] name = "SPLPPct" -> "splp_pct"
      [] OTHER -> name

\* One row of the csv file: the day counter in Date, and for every other
\* column a value that stands for the cell (its column position).
CsvRow(code) ==
    [c \in {GrinnellColumns[i] : i \in DOMAIN GrinnellColumns} |->
        IF c = "Date" THEN code
        ELSE CHOOSE i \in DOMAIN GrinnellColumns : GrinnellColumns[i] = c]

\* df with a column added at the end (or overwritten in place if present).
WithColumn(d, name, value) ==
    [columns |-> IF \E i \in DOMAIN d.columns : d.columns[i] = name
                 THEN d.columns ELSE Append(d.columns, name),
     row |-> [c \in DOMAIN d.row \cup {name} |->
                IF c = name THEN value ELSE d.row[c]]]

\* clean_headers(df, case="snake"): every column label in snake case
clean_headers(d) ==
    [columns |-> [i \in DOMAIN d.columns |-> SnakeCase(d.columns[i])],
     row |-> [c \in {SnakeCase(k) : k \in DOMAIN d.row} |->
                d.row[CHOOSE k \in DOMAIN d.row : SnakeCase(k) = c]]]

\* df.iloc[:, 2:-1], the columns handed to create_report
ReportColumns(d) == PySlice(d.columns, 2, -1)

NoFrame == [columns |-> <<>>, row |-> <<>>]

\* The dataset's day counter: the next (previous) sale date has the next
\* (previous) code; 16436 is 1 January 2005.
LaterSale ==
    /\ eda_pc = "csv"
    /\ csv_code < start_code + MaxDaysAfter
    /\ csv_code' = csv_code + 1
    /\ cal' = NextDay(cal)
    /\ UNCHANGED <<eda_pc, df, report, bookVars, inflVars, ccfVars, moreVars>>

EarlierSale ==
    /\ eda_pc = "csv"
    /\ csv_code > start_code - MaxDaysBefore
    /\ csv_code' = csv_code - 1
    /\ cal' = PrevDay(cal)
    /\ UNCHANGED <<eda_pc, df, report, bookVars, inflVars, ccfVars, moreVars>>

\* df = pd.read_csv(..., index_col=0)
ReadCsv ==
    /\ eda_pc = "csv"
    /\ df' = [columns |-> GrinnellColumns, row |-> CsvRow(csv_code)]
    /\ eda_pc' = "read"
    /\ UNCHANGED <<csv_code, cal, report, bookVars, inflVars, ccfVars, moreVars>>

\* df["datetime"] = df["Date"].apply(convert_date_code_to_datetime)
AddDatetime ==
    /\ eda_pc = "read"
    /\ df' = WithColumn(df, "datetime", convert_date_code_to_datetime(df.row["Date"]))
    /\ eda_pc' = "datetime"
    /\ UNCHANGED <<csv_code, cal, report, bookVars, inflVars, ccfVars, moreVars>>

\* df = clean_headers(df, case="snake")
CleanHeaders ==
    /\ eda_pc = "datetime"
    /\ df' = clean_headers(df)
    /\ eda_pc' = "snake"
    /\ UNCHANGED <<csv_code, cal, report, bookVars, inflVars, ccfVars, moreVars>>

\* df["class_ln_price"] = pd.cut(np.log(df["orig_price"]), bins=4, precision=0)
\* (the bin is held as the value it was cut from)
AddClassLnPrice ==
    /\ eda_pc = "snake"
    /\ df' = WithColumn(df, "class_ln_price", df.row["orig_price"])
    /\ eda_pc' = "binned"
    /\ UNCHANGED <<csv_code, cal, report, bookVars, inflVars, ccfVars, moreVars>>

\* report = create_report(df.iloc[:, 2:-1])
CreateReport ==
    /\ eda_pc = "binned"
    /\ report' = ReportColumns(df)
    /\ eda_pc' = "report"
    /\ UNCHANGED <<csv_code, cal, df, bookVars, inflVars, ccfVars, moreVars>>

EdaStart ==
    /\ eda_pc = "csv"
    /\ csv_code = start_code
    /\ cal = [y |-> 2005, m |-> 1, d |-> 1]
    /\ df = NoFrame
    /\ report = <<>>

NextEda ==
    \/ LaterSale
    \/ EarlierSale
    \/ ReadCsv
    \/ AddDatetime
    \/ CleanHeaders
    \/ AddClassLnPrice
    \/ CreateReport

\* C6: convert_date_code_to_datetime maps code c to the calendar date that
\* lies c - 16436 days after 1 January 2005 (16436 to 1 January 2005, 16437
\* to 2 January 2005, ...), and applying it to the Date column adds a
\* datetime column and changes no existing column.
C6_DateCodeConversion ==
    /\ CivilFromDays(convert_date_code_to_datetime(csv_code)) = cal
    /\ eda_pc = "datetime" =>
         /\ CivilFromDays(df.row["datetime"]) = cal
         /\ df.columns = Append(GrinnellColumns, "datetime")
         /\ \A i \in DOMAIN GrinnellColumns :
              df.row[GrinnellColumns[i]] = CsvRow(csv_code)[GrinnellColumns[i]]

\* The datetime column has been added for a sale on 29 February 2008.
C6_Witness ==
    /\ eda_pc = "datetime"
    /\ cal = [y |-> 2008, m |-> 2, d |-> 29]
    /\ df.row["Date"] = 17590

\* C9: the dataframe passed to create_report holds all but the last column
\* of df: every column except the last, in the same order.
C9_AllButLastColumn ==
    eda_pc = "report" => report = SubSeq(df.columns, 1, Len(df.columns) - 1)

(***************************************************************************)
(* Time Series chapter: floating-point values                              *)
(***************************************************************************)

\* Bits in the significand of the binary floating-point numbers of the model
\* (round to nearest, ties to even, as float64 with a shorter significand).
Prec == 4

RECURSIVE Pow2(_)
Pow2(n) == IF n <= 0 THEN 1 ELSE 2 * Pow2(n - 1)

RECURSIVE BitLen(_)
BitLen(M) == IF M = 0 THEN 0 ELSE 1 + BitLen(M \div 2)

FNaN == [k |-> "nan", m |-> 0, e |-> 0]
FInf == [k |-> "inf", m |-> 0, e |-> 0]
FZero == [k |-> "zero", m |-> 0, e |-> 0]

\* The float nearest to M * 2^E (M > 0): a significand of Prec bits.
Round(M, E) ==
    LET n == BitLen(M)
    IN  IF n <= Prec
        THEN [k |-> "num", m |-> M * Pow2(Prec - n), e |-> E - (Prec - n)]
        ELSE LET s == n - Prec
                 q == M \div Pow2(s)
                 r == M % Pow2(s)
                 half == Pow2(s - 1)
                 up == r > half \/ (r = half /\ q % 2 = 1)
                 qq == IF up THEN q + 1 ELSE q
             IN  IF qq = Pow2(Prec)
                 THEN [k |-> "num", m |-> Pow2(Prec - 1), e |-> E + s + 1]
                 ELSE [k |-> "num", m |-> qq, e |-> E + s]

\* The float of a small positive integer.
F(n) == Round(n, 0)

\* a * b on (non-negative) floats
FMul(a, b) ==
    IF a.k = "nan" \/ b.k = "nan" THEN FNaN
    ELSE IF (a.k = "zero" /\ b.k = "inf") \/ (a.k = "inf" /\ b.k = "zero") THEN FNaN
    ELSE IF a.k = "zero" \/ b.k = "zero" THEN FZero
    ELSE IF a.k = "inf" \/ b.k = "inf" THEN FInf
    ELSE Round(a.m * b.m, a.e + b.e)

\* a / b on (non-negative) floats; division by zero gives inf or nan
FDiv(a, b) ==
    IF a.k = "nan" \/ b.k = "nan" THEN FNaN
    ELSE IF (a.k = "zero" /\ b.k = "zero") \/ (a.k = "inf" /\ b.k = "inf") THEN FNaN
    ELSE IF a.k = "zero" \/ b.k = "inf" THEN FZero
    ELSE IF a.k = "inf" \/ b.k = "zero" THEN FInf
    ELSE LET K == Prec + 1
             Q == (a.m * Pow2(K)) \div b.m
             R == (a.m * Pow2(K)) % b.m
         IN  Round(2 * Q + (IF R = 0 THEN 0 ELSE 1), a.e - b.e - K - 1)

(***************************************************************************)
(* Time Series chapter: adjusting for inflation                            *)
(***************************************************************************)

\* start / end of the FRED request
FirstYear == 2000
LastYear == 2021
\* the reference year the prose names for the adjusted prices
ProseYear == 2012
\* the row label the adjustment reads, "2021-12-31"
BaseYear == 2021

\* The rows of cdf kept by the model, labelled by the year of their
\* year-end date: the first row, the 2012 row and the last row.
Years == {FirstYear, ProseYear, LastYear}

\* Annual means of the two series (a year without observations is NaN).
InflationValues == {F(3), F(7), F(11), FZero, FNaN}
CheddarValues == {F(3), F(5), F(7)}

\* cdf.loc[label, column]
loc(frame, year, column) == frame[column][year]

\* the adjustment with the 2012 row as the base row
cheddar_i_adjust_prose_year(frame) ==
    [t \in Years |->
        FDiv(FMul(loc(frame, ProseYear, "inflation"), frame["cheddar"][t]),
             frame["inflation"][t])]

\* the adjustment with the first row as the base row
cheddar_i_adjust_first_row(frame) ==
    [t \in Years |->
        FDiv(FMul(loc(frame, FirstYear, "inflation"), frame["cheddar"][t]),
             frame["inflation"][t])]

\* the column assigned to cdf["cheddar_i_adjust"]
cheddar_i_adjust(frame) ==
    [t \in Years |->
        FDiv(FMul(loc(frame, BaseYear, "inflation"), frame["cheddar"][t]),
             frame["inflation"][t])]

\* cdf["cheddar_i_adjust"] = cdf.loc["2021-12-31", "inflation"] * cdf["cheddar"] / cdf["inflation"]
AdjustForInflation ==
    /\ infl_pc = "loaded"
    /\ cdf' = cdf @@ ("cheddar_i_adjust" :> cheddar_i_adjust(cdf))
    /\ infl_pc' = "adjusted"
    /\ UNCHANGED <<bookVars, edaVars, ccfVars, moreVars>>

InflStart ==
    /\ infl_pc = "loaded"
    /\ \E infl \in [Years -> InflationValues], ched \in [Years -> CheddarValues] :
          cdf = ("inflation" :> infl) @@ ("cheddar" :> ched)

NextInfl ==
    \/ AdjustForInflation

\* |a - b| <= 3 * 2^-Prec * b for floats a, b that are numbers: a and b
\* differ by no more than two roundings (one multiplication, one division).
WithinRounding(a, b) ==
    /\ a.k = "num"
    /\ b.k = "num"
    /\ LET emin == IF a.e < b.e THEN a.e ELSE b.e
           A == a.m * Pow2(a.e - emin)
           B == b.m * Pow2(b.e - emin)
           D == IF A > B THEN A - B ELSE B - A
       IN  D * Pow2(Prec) <= 3 * B

MaxN == 3
MaxVal == 1

RECURSIVE SumTo(_, _)
\* f[1] + ... + f[n]
SumTo(f, n) == IF n = 0 THEN 0 ELSE f[n] + SumTo(f, n - 1)

\* x - np.mean(x), every entry scaled by len(x) to stay in the integers
Demean(s) == [i \in 1..Len(s) |-> Len(s) * s[i] - SumTo(s, Len(s))]

\* scipy.signal.correlate(a, b, method="direct"), mode "full":
\* z[k] = sum_l a[l] * b[l - k + len(b) - 1], k = 0 .. len(a) + len(b) - 2
Correlate(a, b) ==
    [k \in 1..(Len(a) + Len(b) - 1) |->
        SumTo([l \in 1..Len(a) |->
                 LET j == l - k + Len(b)
                 IN  IF j \in 1..Len(b) THEN a[l] * b[j] ELSE 0], Len(a))]

\* int(10 * np.log10(m / 2)) for m >= 2: the largest k with 10^k <= (m/2)^10
RECURSIVE Pow(_, _)
Pow(b, n) == IF n = 0 THEN 1 ELSE b * Pow(b, n - 1)

\* the rule of thumb without the division by 2: int(10 * np.log10(m))
DefaultLagNoHalf(m) ==
    CHOOSE k \in 0..10 :
        /\ Pow(10, k) <= Pow(m, 10)
        /\ (k < 10 => Pow(10, k + 1) > Pow(m, 10))

\* lag_max = int(10 * np.log10(min(len(x), len(y)) / 2)), given the minimum
DefaultLag(m) ==
    CHOOSE k \in 0..10 :
        /\ Pow(10, k) * Pow(2, 10) <= Pow(m, 10)
        /\ (k < 10 => Pow(10, k + 1) * Pow(2, 10) > Pow(m, 10))

Min(a, b) == IF a < b THEN a ELSE b

\* ccf_stats with the upper end of the window one short
ccf_stats_short(xs, ys, lag) ==
    LET lm == IF lag = <<>> \/ lag = <<0>>
              THEN DefaultLag(Min(Len(xs), Len(ys))) ELSE lag[1]
        dx == Demean(xs)
        dy == Demean(ys)
        den2 == SumTo([i \in 1..Len(dx) |-> dx[i] * dx[i]], Len(dx))
                  * SumTo([i \in 1..Len(dy) |-> dy[i] * dy[i]], Len(dy))
        c == Correlate(dx, dy)
        result == [k \in 1..Len(c) |-> [num |-> c[k], den2 |-> den2]]
        length == (Len(result) - 1) \div 2
        lo == length - lm
        hi == length + lm
    IN  PySlice(result, lo, hi)

\* def ccf_stats(x, y, lag_max=None).  A value of the result is held as
\* num / sqrt(den2), where num = n^2 * sum (x - mean x)(y - mean y) and
\* den2 = (n^2 * std(y) * std(x) * len(y))^2.
ccf_stats(xs, ys, lag) ==
    LET lm == IF lag = <<>> \/ lag = <<0>>
              THEN DefaultLag(Min(Len(xs), Len(ys))) ELSE lag[1]
        dx == Demean(xs)
        dy == Demean(ys)
        den2 == SumTo([i \in 1..Len(dx) |-> dx[i] * dx[i]], Len(dx))
                  * SumTo([i \in 1..Len(dy) |-> dy[i] * dy[i]], Len(dy))
        c == Correlate(dx, dy)
        result == [k \in 1..Len(c) |-> [num |-> c[k], den2 |-> den2]]
        length == (Len(result) - 1) \div 2
        lo == length - lm
        hi == length + (lm + 1)
    IN  PySlice(result, lo, hi)

\* ccf_res_stats = ccf_stats(x, y, lag_max)
CallCcfStats ==
    /\ ccf_pc = "call"
    /\ ccf_res' = ccf_stats(ccf_x, ccf_y, lag_max)
    /\ ccf_pc' = "returned"
    /\ UNCHANGED <<ccf_x, ccf_y, lag_max, bookVars, edaVars, inflVars, moreVars>>

\* Two series (the call in the chapter passes two columns of one dataframe,
\* which have equal length), and lag_max absent (<<>>) or supplied.
CcfStart ==
    /\ ccf_pc = "call"
    /\ ccf_res = <<>>
    /\ \E n \in 2..MaxN, k \in 2..MaxN :
         /\ ccf_x \in [1..n -> 0..MaxVal]
         /\ ccf_y \in [1..k -> 0..MaxVal]
    /\ lag_max \in {<<>>} \cup {<<k>> : k \in 0..MaxN}

NextCcf ==
    \/ CallCcfStats

\* The statistics definition of the cross-correlation at lag j:
\* sum over t of (y[t] - mean y) * (x[t+j] - mean x), on the scale of ccf_stats.
CrossCorr(xs, ys, j) ==
    LET dx == Demean(xs)
        dy == Demean(ys)
    IN  [num |-> SumTo([t \in 1..Len(ys) |->
                          IF t + j \in 1..Len(xs) THEN dy[t] * dx[t + j] ELSE 0],
                       Len(ys)),
         den2 |-> SumTo([i \in 1..Len(dx) |-> dx[i] * dx[i]], Len(dx))
                    * SumTo([i \in 1..Len(dy) |-> dy[i] * dy[i]], Len(dy))]

\* C10: for equal-length x and y of length n and a supplied lag_max with
\* 1 <= lag_max <= n-1, ccf_stats returns exactly 2*lag_max+1 values: the
\* cross-correlations for the lags -lag_max..+lag_max in increasing lag
\* order, the zero-lag value in the middle.
C10_LagWindow ==
    (/\ ccf_pc = "returned"
     /\ lag_max # <<>>
     /\ Len(ccf_x) = Len(ccf_y)
     /\ lag_max[1] >= 1
     /\ lag_max[1] <= Len(ccf_x) - 1) =>
        /\ Len(ccf_res) = 2 * lag_max[1] + 1
        /\ \A j \in (0 - lag_max[1])..lag_max[1] :
             ccf_res[j + lag_max[1] + 1] = CrossCorr(ccf_x, ccf_y, j)

\* A returned window whose values at lag -1 and lag +1 differ.
C10_Witness ==
    /\ ccf_pc = "returned"
    /\ lag_max = <<1>>
    /\ Len(ccf_x) = 3
    /\ Len(ccf_y) = 3
    /\ Len(ccf_res) = 3
    /\ ccf_res[1].num # ccf_res[3].num
    /\ ccf_res[2] = CrossCorr(ccf_x, ccf_y, 0)

\* floor(10 * log10(m / 2)) for m >= 2: the number of k >= 1 with
\* 10^k <= (m/2)^10
RuleOfThumb(m) ==
    Cardinality({k \in 1..9 : Pow(10, k) <= Pow(m, 10) \div Pow(2, 10)})

\* C11: when lag_max is not supplied, ccf_stats uses the rule of thumb
\* lag_max = floor(10 * log10(min(len(x), len(y)) / 2)) whenever the shorter
\* input has at least 2 entries: it returns the 2*lag_max+1 values around
\* the middle of the full correlation.
C11_RuleOfThumbLag ==
    (/\ ccf_pc = "returned"
     /\ lag_max = <<>>
     /\ Min(Len(ccf_x), Len(ccf_y)) >= 2) =>
        LET k == RuleOfThumb(Min(Len(ccf_x), Len(ccf_y)))
            full == Correlate(Demean(ccf_x), Demean(ccf_y))
            mid == (Len(full) - 1) \div 2 + 1
        IN  /\ Len(ccf_res) = 2 * k + 1
            /\ \A j \in (0 - k)..k : ccf_res[j + k + 1].num = full[mid + j]

\* ccf_stats has returned for series of lengths 3 and 2 without a lag_max.
C11_Witness ==
    /\ ccf_pc = "returned"
    /\ lag_max = <<>>
    /\ Len(ccf_x) = 3
    /\ Len(ccf_y) = 2
    /\ Len(ccf_res) = 1

(***************************************************************************)
(* Time Series chapter: demeaning the GDP series                           *)
(***************************************************************************)

\* Bounds: number of quarters of the GDP series and size of its values.
MaxT == 3
MaxGdp == 1

\* Two executions of the cells on two vintages of the data (the series is
\* downloaded with end=datetime.now()).
Runs == {1, 2}

\* A quotient num / den of integers, den > 0; equality of two quotients.
Rat(n, d) == [num |-> n, den |-> d]
RatEq(a, b) == a.num * b.den = b.num * a.den

RECURSIVE Accumulate(_, _, _, _, _)
\* The windowed mean of pandas: going through the values once, add the
\* entering value to the running sum and count, remove the value that
\* leaves a window of width w (w = 0: no value ever leaves), emit sum / count.
Accumulate(s, i, w, sum, out) ==
    IF i > Len(s) THEN out
    ELSE LET leaving == IF w > 0 /\ i > w THEN s[i - w] ELSE 0
             nobs == IF w > 0 /\ i > w THEN w ELSE i
             total == sum + s[i] - leaving
         IN  Accumulate(s, i + 1, w, total, Append(out, Rat(total, nobs)))

\* .rolling(2, min_periods=1).mean(): right on the first two entries only
expanding_mean_window2(s) == Accumulate(s, 1, 2, 0, <<>>)

\* .expanding().mean(): min_periods = 1, the window grows from the start
expanding_mean(s) == Accumulate(s, 1, 0, 0, <<>>)

\* .mean() of a column, broadcast to every row
mean(s) == [t \in 1..Len(s) |-> Rat(SumTo(s, Len(s)), Len(s))]

\* column of integers minus column of quotients, row by row
Minus(s, q) == [t \in 1..Len(s) |-> Rat(s[t] * q[t].den - q[t].num, q[t].den)]

\* df[name] = value on a dataframe kept as column label -> values
Assign(d, name, value) ==
    [c \in DOMAIN d \cup {name} |-> IF c = name THEN value ELSE d[c]]

\* df["gdp"] - df["gdp"].mean() in place of the expanding mean
real_time_demean_full_sample(d) == Minus(d["gdp"], mean(d["gdp"]))

\* df["gdp"] - df["gdp"].expanding().mean()
real_time_demean(d) == Minus(d["gdp"], expanding_mean(d["gdp"]))

\* df["demean"] = df["gdp"] - df["gdp"].mean()
DemeanGdp(r) ==
    /\ gdp_pc[r] = "loaded"
    /\ gdp_df' = [gdp_df EXCEPT ![r] =
                    Assign(@, "demean", Minus(@["gdp"], mean(@["gdp"])))]
    /\ gdp_pc' = [gdp_pc EXCEPT ![r] = "demeaned"]
    /\ UNCHANGED <<bookVars, edaVars, inflVars, ccfVars, vacVars, labVars, rngVars, mdVars, tocVars>>

\* df["real_time_demean"] = df["gdp"] - df["gdp"].expanding().mean()
RealTimeDemean(r) ==
    /\ gdp_pc[r] = "demeaned"
    /\ gdp_df' = [gdp_df EXCEPT ![r] =
                    Assign(@, "real_time_demean", real_time_demean(@))]
    /\ gdp_pc' = [gdp_pc EXCEPT ![r] = "real_time"]
    /\ UNCHANGED <<bookVars, edaVars, inflVars, ccfVars, vacVars, labVars, rngVars, mdVars, tocVars>>

\* df = web.DataReader(...); df.columns = ["gdp"]: any series of 1..MaxT
\* quarters in each run
GdpStart ==
    /\ gdp_pc = [r \in Runs |-> "loaded"]
    /\ \E n1 \in 1..MaxT, n2 \in 1..MaxT :
         \E s1 \in [1..n1 -> 0..MaxGdp], s2 \in [1..n2 -> 0..MaxGdp] :
            gdp_df = <<[gdp |-> s1], [gdp |-> s2]>>

NextGdp == \E r \in Runs : DemeanGdp(r) \/ RealTimeDemean(r)

\* C12: real-time demeaning: for every position t (counted from 0),
\* real_time_demean[t] = gdp[t] - (gdp[0] + ... + gdp[t]) / (t + 1); the
\* first entry is 0 and the second is the second GDP entry minus the
\* average of the first two.
C12_RealTimeDemean ==
    \A r \in Runs :
        gdp_pc[r] = "real_time" =>
            LET g == gdp_df[r]["gdp"]
                rtd == gdp_df[r]["real_time_demean"]
            IN  /\ Len(rtd) = Len(g)
                /\ \A t \in 0..(Len(g) - 1) :
                     RatEq(rtd[t + 1],
                           Rat((t + 1) * g[t + 1] - SumTo(SubSeq(g, 1, t + 1), t + 1),
                               t + 1))
                /\ rtd[1].num = 0
                /\ Len(g) >= 2 => RatEq(rtd[2], Rat(2 * g[2] - (g[1] + g[2]), 2))

\* A run has real-time demeaned three quarters, the third entry is not 0
\* and differs from the full-sample demeaned one.
C12_Witness ==
    /\ gdp_pc[1] = "real_time"
    /\ Len(gdp_df[1]["gdp"]) = 3
    /\ gdp_df[1]["real_time_demean"][3].num # 0
    /\ ~RatEq(gdp_df[1]["real_time_demean"][2], gdp_df[1]["demean"][2])

\* C13: no look-ahead: for any two GDP series that agree on the
\* observations 0..t, the real_time_demean values at the positions 0..t are
\* equal.
C13_NoLookAhead ==
    (gdp_pc[1] = "real_time" /\ gdp_pc[2] = "real_time") =>
        LET g1 == gdp_df[1]["gdp"]
            g2 == gdp_df[2]["gdp"]
        IN  \A t \in 1..Min(Len(g1), Len(g2)) :
                SubSeq(g1, 1, t) = SubSeq(g2, 1, t) =>
                    \A u \in 1..t :
                        RatEq(gdp_df[1]["real_time_demean"][u],
                              gdp_df[2]["real_time_demean"][u])

\* Two vintages that agree on the first two quarters and differ afterwards,
\* so that their full-sample means differ, both real-time demeaned.
C13_Witness ==
    /\ gdp_pc[1] = "real_time" /\ gdp_pc[2] = "real_time"
    /\ Len(gdp_df[1]["gdp"]) = 3 /\ Len(gdp_df[2]["gdp"]) = 3
    /\ SubSeq(gdp_df[1]["gdp"], 1, 2) = SubSeq(gdp_df[2]["gdp"], 1, 2)
    /\ gdp_df[1]["gdp"][3] # gdp_df[2]["gdp"][3]
    /\ ~RatEq(gdp_df[1]["demean"][1], gdp_df[2]["demean"][1])
    /\ gdp_df[1]["real_time_demean"][2].num # 0

(***************************************************************************)
(* Time Series chapter: the vacancies series (dates, offsets, shifting)    *)
(***************************************************************************)

\* Bounds: number of monthly observations, number of start years after
\* FirstVacYear, and the largest first value of the series.
MaxRows == 14
MaxYears == 2
MaxFirst == 1

\* The data start in "2001 MAY".
FirstVacYear == 2001

\* A float of the value column is held as <<v>>; the missing value as <<>>.
NaN == <<>>

VacanciesName == "Vacancies (ICT), thousands"

MonthNames ==
    <<"JAN", "FEB", "MAR", "APR", "MAY", "JUN",
      "JUL", "AUG", "SEP", "OCT", "NOV", "DEC">>

\* pd.to_datetime of a "2001 MAY" string: the first day of that month
to_datetime_year_month(str) ==
    DaysFromCivil(str[1],
                  CHOOSE m \in DOMAIN MonthNames : MonthNames[m] = str[2],
                  1)

\* roll_convention(other, n, compare) of pandas' offsets
roll_convention(other, n, compare) ==
    IF n > 0 /\ other < compare THEN n - 1
    ELSE IF n <= 0 /\ other > compare THEN n + 1
    ELSE n

\* shift_month(stamp, months, day_opt="end")
shift_month(c, months) ==
    LET m0 == (c.m + months) % 12
        dy0 == (c.m + months) \div 12
        m == IF m0 = 0 THEN 12 ELSE m0
        y == c.y + (IF m0 = 0 THEN dy0 - 1 ELSE dy0)
    IN  [y |-> y, m |-> m, d |-> DaysInMonth(y, m)]

\* Timestamp + MonthEnd() without the roll convention: n stays 1
MonthEnd_no_roll(ts) ==
    LET c == CivilFromDays(ts)
        r == shift_month(c, 1)
    IN  DaysFromCivil(r.y, r.m, r.d)

\* Timestamp + pd.offsets.MonthEnd(), n = 1
MonthEnd(ts) ==
    LET c == CivilFromDays(ts)
        n == roll_convention(c.d, 1, DaysInMonth(c.y, c.m))
        r == shift_month(c, n)
    IN  DaysFromCivil(r.y, r.m, r.d)

RECURSIVE date_range(_, _)
\* pd.date_range(start, end, freq="M") for a start that is a month end
date_range(start, end) ==
    IF start > end THEN <<>>
    ELSE <<start>> \o date_range(MonthEnd(start), end)

\* Series.shift(periods) the other way round
shift_reversed(s, periods) ==
    LET n == Len(s)
        p == 0 - periods
        lo == IF p > 0 THEN 0 ELSE PyIndex(p, n)
        hi == IF p > 0 THEN PyIndex(p, n) ELSE n
    IN  [i \in 1..n |->
            IF i - 1 >= lo /\ i - 1 < hi THEN NaN
            ELSE s[((i - 1 - p) % n) + 1]]

\* Series.shift(periods): np.roll(values, periods), then the slice
\* [:periods] (periods > 0) or [periods:] (periods < 0) is filled with NaN
shift(s, periods) ==
    LET n == Len(s)
        lo == IF periods > 0 THEN 0 ELSE PyIndex(periods, n)
        hi == IF periods > 0 THEN PyIndex(periods, n) ELSE n
    IN  [i \in 1..n |->
            IF i - 1 >= lo /\ i - 1 < hi THEN NaN
            ELSE s[((i - 1 - periods) % n) + 1]]

\* lead = 12, lag = 3
lead == 12
lag == 3

\* df = df.rename(columns={"value": "Vacancies (ICT), thousands"})
RenameValue ==
    /\ vac_pc = "selected"
    /\ vac_df' = [vac_df EXCEPT
                    !.columns = [i \in DOMAIN @ |->
                                   IF @[i] = "value" THEN VacanciesName ELSE @[i]],
                    !.data = [c \in (DOMAIN @ \ {"value"}) \cup {VacanciesName} |->
                                IF c = VacanciesName THEN @["value"] ELSE @[c]]]
    /\ vac_pc' = "renamed"
    /\ UNCHANGED <<vac_raw, bookVars, edaVars, inflVars, ccfVars, gdpVars, labVars, rngVars, mdVars, tocVars>>

\* df["date"] = pd.to_datetime(df["date"])
VacToDatetime ==
    /\ vac_pc = "renamed"
    /\ vac_df' = [vac_df EXCEPT
                    !.data["date"] = [i \in DOMAIN @ |-> to_datetime_year_month(@[i])]]
    /\ vac_pc' = "datetime"
    /\ UNCHANGED <<vac_raw, bookVars, edaVars, inflVars, ccfVars, gdpVars, labVars, rngVars, mdVars, tocVars>>

\* df["date"] = df["date"] + pd.offsets.MonthEnd()
MonthEndOffset ==
    /\ vac_pc = "datetime"
    /\ vac_df' = [vac_df EXCEPT
                    !.data["date"] = [i \in DOMAIN @ |-> MonthEnd(@[i])]]
    /\ vac_pc' = "offset"
    /\ UNCHANGED <<vac_raw, bookVars, edaVars, inflVars, ccfVars, gdpVars, labVars, rngVars, mdVars, tocVars>>

\* df = df.set_index("date")
SetIndex ==
    /\ vac_pc = "offset"
    /\ vac_df' = [columns |-> SelectSeq(vac_df.columns, LAMBDA c : c # "date"),
                  index |-> vac_df.data["date"],
                  data |-> [c \in DOMAIN vac_df.data \ {"date"} |-> vac_df.data[c]]]
    /\ vac_pc' = "indexed"
    /\ UNCHANGED <<vac_raw, bookVars, edaVars, inflVars, ccfVars, gdpVars, labVars, rngVars, mdVars, tocVars>>

\* df = df.asfreq("M"): reindex on the month ends from the first to the
\* last index value
Asfreq ==
    /\ vac_pc = "indexed"
    /\ LET old == vac_df.index
           new == date_range(old[1], old[Len(old)])
       IN  vac_df' = [vac_df EXCEPT
                        !.index = new,
                        !.data = [c \in DOMAIN @ |->
                                    [i \in DOMAIN new |->
                                       IF \E j \in DOMAIN old : old[j] = new[i]
                                       THEN @[c][CHOOSE j \in DOMAIN old : old[j] = new[i]]
                                       ELSE NaN]]]
    /\ vac_pc' = "asfreq"
    /\ UNCHANGED <<vac_raw, bookVars, edaVars, inflVars, ccfVars, gdpVars, labVars, rngVars, mdVars, tocVars>>

\* orig_series_name = df.columns[0]
\* df[f"lead ({lead} months)"] = df[orig_series_name].shift(-lead)
\* df[f"lag ({lag} months)"] = df[orig_series_name].shift(lag)
ShiftCell ==
    /\ vac_pc = "asfreq"
    /\ LET orig_series_name == vac_df.columns[1]
           with_lead == Assign(vac_df.data, "lead (12 months)",
                               shift(vac_df.data[orig_series_name], 0 - lead))
           with_lag == Assign(with_lead, "lag (3 months)",
                              shift(with_lead[orig_series_name], lag))
       IN  vac_df' = [vac_df EXCEPT
                        !.columns = @ \o <<"lead (12 months)", "lag (3 months)">>,
                        !.data = with_lag]
    /\ vac_pc' = "shifted"
    /\ UNCHANGED <<vac_raw, bookVars, edaVars, inflVars, ccfVars, gdpVars, labVars, rngVars, mdVars, tocVars>>

RECURSIVE Months(_, _, _)
\* n consecutive months from month m of year y, as the strings of the
\* response ("2001 MAY", held as <<2001, "MAY">>)
Months(y, m, n) ==
    IF n = 0 THEN <<>>
    ELSE <<(<<y, MonthNames[m]>>)>>
           \o Months(IF m = 12 THEN y + 1 ELSE y, IF m = 12 THEN 1 ELSE m + 1, n - 1)

\* df = pd.DataFrame(pd.json_normalize(...)); df["value"] = pd.to_numeric(...)
\* df = df[["date", "value"]]: a monthly series of 1..MaxRows observations
VacStart ==
    /\ vac_pc = "selected"
    /\ \E y \in FirstVacYear..(FirstVacYear + MaxYears), m \in 1..12,
          n \in 1..MaxRows, v0 \in 0..MaxFirst :
         LET dates == Months(y, m, n)
         IN  vac_raw = [i \in 1..n |-> [date |-> dates[i], value |-> <<v0 + i>>]]
    /\ vac_df = [columns |-> <<"date", "value">>,
                 index |-> [i \in DOMAIN vac_raw |-> i - 1],
                 data |-> [c \in {"date", "value"} |->
                             [i \in DOMAIN vac_raw |-> vac_raw[i][c]]]]

NextVac ==
    \/ RenameValue
    \/ VacToDatetime
    \/ MonthEndOffset
    \/ SetIndex
    \/ Asfreq
    \/ ShiftCell

\* C14: after the shifting cell, at every index position t the lead column
\* holds the original series' value at t+12 and the lag column its value at
\* t-3; entries without such a source position (the last 12 of the lead, the
\* first 3 of the lag) are missing; the original column, df.columns[0], is
\* the vacancies series and is unchanged.
C14_LeadAndLag ==
    vac_pc = "shifted" =>
        LET n == Len(vac_raw)
            orig == vac_df.data[vac_df.columns[1]]
            lead_col == vac_df.data["lead (12 months)"]
            lag_col == vac_df.data["lag (3 months)"]
        IN  /\ vac_df.columns[1] = VacanciesName
            /\ orig = [i \in 1..n |-> vac_raw[i].value]
            /\ Len(lead_col) = n /\ Len(lag_col) = n
            /\ \A t \in 0..(n - 1) :
                 /\ lead_col[t + 1] = IF t + 12 <= n - 1 THEN orig[t + 12 + 1] ELSE NaN
                 /\ lag_col[t + 1] = IF t - 3 >= 0 THEN orig[t - 3 + 1] ELSE NaN
                 /\ t >= n - 12 => lead_col[t + 1] = NaN
                 /\ t < 3 => lag_col[t + 1] = NaN

\* A shifted frame of 14 months: two lead entries and eleven lag entries
\* hold values.
C14_Witness ==
    /\ vac_pc = "shifted"
    /\ Len(vac_raw) = 14
    /\ vac_df.data["lead (12 months)"][2] = vac_raw[14].value
    /\ vac_df.data["lead (12 months)"][3] = NaN
    /\ vac_df.data["lag (3 months)"][4] = vac_raw[1].value
    /\ vac_df.data["lag (3 months)"][3] = NaN

\* C15: the month-end offset step moves every date, read in as the first
\* day of a month, to the last day of that same month, for every month
\* length including February in leap years, and leaves the value column
\* unchanged.
C15_MonthEndSameMonth ==
    vac_pc = "offset" =>
        /\ vac_df.data[VacanciesName] = [i \in DOMAIN vac_raw |-> vac_raw[i].value]
        /\ \A i \in DOMAIN vac_raw :
             LET str == vac_raw[i].date
                 c == CivilFromDays(vac_df.data["date"][i])
                 following == CivilFromDays(vac_df.data["date"][i] + 1)
             IN  /\ c.y = str[1]
                 /\ MonthNames[c.m] = str[2]
                 /\ following.d = 1
                 /\ following.m # c.m

\* The offset has run on a series that holds February 2004: its date is
\* 29 February 2004.
C15_Witness ==
    /\ vac_pc = "offset"
    /\ \E i \in DOMAIN vac_raw :
         /\ vac_raw[i].date = <<2004, "FEB">>
         /\ CivilFromDays(vac_df.data["date"][i]) = [y |-> 2004, m |-> 2, d |-> 29]

(***************************************************************************)
(* Column labels of df in the two data chapters                            *)
(***************************************************************************)

\* An operation of a cell on the column labels of df, with the line of the
\* source it stands on: `at` holds the labels the operation is addressed to
\* (the column assigned, the index label of set_index, the keys of groupby,
\* the label renamed), `labels` the labels it reads (or, for "bind",
\* "set_columns", "select" and "rename", the labels it leaves).
\*   bind            df = <a frame with the columns `labels`>
\*   read            df[labels]
\*   add             df[at] = f(df[labels])
\*   add_from_first  df[at] = f(df[df.columns[0]])
\*   select          df = df[labels]
\*   rename          df = df.rename(columns={at: labels})
\*   set_index       df = df.set_index(at)
\*   set_columns     df.columns = labels
\*   clean_headers   df = clean_headers(df, case="snake")
\*   read_indexed    df.set_index(at). ... [labels]
\*   read_grouped    df.groupby(at).mean()[labels]
Op(op, line, at, labels) ==
    [op |-> op, line |-> line, at |-> at, labels |-> labels]
\*   df.iloc[:, start:stop] ... subset=labels
IlocRead(line, start, stop, labels) ==
    [op |-> "iloc_read", line |-> line, start |-> start, stop |-> stop,
     at |-> <<>>, labels |-> labels]

Labels(cols) == {cols[i] : i \in DOMAIN cols}

\* The "months" records of the ONS response as json_normalize lays them out.
OnsColumns ==
    <<"date", "value", "label", "year", "month", "quarter",
      "sourceDataset", "updateDate">>

\* The columns of the Rdatasets time series files read with index_col=0.
RdatasetsColumns == <<"time", "value">>

\* pd.merge(left, right, on=key, how="inner", suffixes=(ls, rs)): the key
\* once, the other labels of both sides, suffixed where they overlap
merge(left, right, key, ls, rs) ==
    LET l == [i \in DOMAIN left |->
                IF left[i] # key /\ left[i] \in Labels(right)
                THEN left[i] \o ls ELSE left[i]]
        r == [i \in DOMAIN right |->
                IF right[i] \in Labels(left) THEN right[i] \o rs ELSE right[i]]
    IN  l \o SelectSeq(r, LAMBDA c : c # key \o rs)

\* The operations on df of the Exploratory Data Analysis notebook.
EDA_ops ==
    << Op("bind", 49, <<>>, GrinnellColumns),
       Op("add", 78, <<"datetime">>, <<"Date">>),
       Op("read", 80, <<>>, <<"datetime">>),
       Op("add", 115, <<"Address">>, <<"Address">>),
       Op("add", 116, <<"Bedrooms">>, <<"Bedrooms">>),
       Op("add", 117, <<"OrigPrice">>, <<"OrigPrice">>),
       Op("add", 118, <<"ListPrice">>, <<"ListPrice">>),
       Op("add", 119, <<"SalePrice">>, <<"SalePrice">>),
       Op("clean_headers", 142, <<>>, <<>>),
       Op("read_grouped", 299, <<"year_sold", "bedrooms">>, <<"sale_price">>),
       Op("read", 326, <<>>, <<"bedrooms", "year_sold">>),
       IlocRead(347, 0 - 6, 0 - 1, <<"cost_per_sq_ft", "sale_price">>),
       Op("read", 366, <<>>, <<"bedrooms", "splp_pct">>),
       IlocRead(382, 0 - 6, 0 - 1, <<>>),
       Op("read_indexed", 408, <<"datetime">>, <<"sale_price">>),
       Op("read_indexed", 434, <<"datetime">>, <<"orig_price", "list_price", "sale_price">>),
       Op("read", 457, <<>>, <<"square_feet">>),
       Op("read", 473, <<>>, <<"bedrooms">>),
       Op("read", 492, <<>>, <<"year_built">>),
       Op("read", 508, <<>>, <<"orig_price", "list_price", "sale_price">>),
       Op("add", 517, <<"class_ln_price">>, <<"orig_price">>),
       Op("read_indexed", 520, <<"datetime">>, <<"class_ln_price">>),
       Op("read", 541, <<>>, <<"square_feet", "sale_price">>),
       Op("read", 557, <<>>, <<"list_price", "splp_pct", "cost_per_sq_ft">>),
       IlocRead(625, 2, 0 - 1, <<>>) >>

\* The operations on df of the Time Series notebook.
TimeSeries_ops ==
    << Op("bind", 294, <<>>, OnsColumns),
       Op("add", 295, <<"value">>, <<"value">>),
       Op("select", 296, <<>>, <<"date", "value">>),
       Op("rename", 297, <<"value">>, <<"Vacancies (ICT), thousands">>),
       Op("add", 330, <<"date">>, <<"date">>),
       Op("read", 331, <<>>, <<"date">>),
       Op("add", 384, <<"date">>, <<"date">>),
       Op("set_index", 410, <<"date">>, <<>>),
       Op("add_from_first", 725, <<"lead (12 months)">>, <<>>),
       Op("add_from_first", 726, <<"lag (3 months)">>, <<>>),
       Op("read", 758, <<>>, <<"Vacancies (ICT), thousands">>),
       Op("read", 777, <<>>, <<"Vacancies (ICT), thousands">>),
       Op("bind", 858, <<>>, merge(RdatasetsColumns, RdatasetsColumns, "time", "_lynx", "_sunspots")),
       Op("set_index", 859, <<"time">>, <<>>),
       Op("read", 886, <<>>, <<"value_sunspots", "value_lynx">>),
       Op("bind", 933, <<>>, <<"NA000334Q">>),
       Op("set_columns", 934, <<>>, <<"gdp">>),
       Op("add", 951, <<"log">>, <<"gdp">>),
       Op("add", 952, <<"square">>, <<"gdp">>),
       Op("add", 953, <<"sqrt">>, <<"gdp">>),
       Op("add", 972, <<"q_on_q">>, <<"gdp">>),
       Op("add", 973, <<"q_on_q_yr_ago">>, <<"gdp">>),
       Op("add", 996, <<"demean">>, <<"gdp">>),
       Op("read", 997, <<>>, <<"gdp", "demean">>),
       Op("add", 1019, <<"real_time_demean">>, <<"gdp">>),
       Op("read", 1020, <<>>, <<"gdp", "real_time_demean">>),
       Op("add", 1044, <<"difference">>, <<"gdp">>),
       Op("read", 1045, <<>>, <<"gdp", "difference">>) >>

LabelChapters == {"data-exploratory-analysis", "time-series"}

Ops(ch) == IF ch = "time-series" THEN TimeSeries_ops ELSE EDA_ops

\* The labels an operation looks up (the label assigned by df[label] = ...
\* is not looked up).
Wanted(o) ==
    IF o.op \in {"read", "select", "iloc_read", "set_index",
                 "read_indexed", "read_grouped"}
    THEN Labels(o.at) \cup Labels(o.labels)
    ELSE IF o.op = "add" THEN Labels(o.labels) ELSE {}

\* The labels an operation looks up and does not find in the frame `cols`:
\* the index label of set_index and the keys of groupby are looked up in df,
\* the labels read afterwards in what is left (.mean() of a groupby has the
\* keys in the index); iloc offers only the columns of the slice.
Missing(cols, o) ==
    CASE o.op = "iloc_read" ->
           Labels(o.labels) \ Labels(PySlice(cols, o.start, o.stop))
      [] o.op \in {"read_grouped", "read_indexed"} ->
           (Labels(o.at) \ Labels(cols))
             \cup (Labels(o.labels) \ (Labels(cols) \ Labels(o.at)))
      [] OTHER -> Wanted(o) \ Labels(cols)

\* The column labels of df after an operation that found its labels.
After(cols, o) ==
    CASE o.op \in {"bind", "select", "set_columns"} -> o.labels
      [] o.op \in {"add", "add_from_first"} ->
           IF o.at[1] \in Labels(cols) THEN cols ELSE Append(cols, o.at[1])
      [] o.op = "rename" -> [i \in DOMAIN cols |->
                               IF cols[i] = o.at[1] THEN o.labels[1] ELSE cols[i]]
      [] o.op = "set_index" -> SelectSeq(cols, LAMBDA c : c # o.at[1])
      [] o.op = "clean_headers" -> [i \in DOMAIN cols |-> SnakeCase(cols[i])]
      [] OTHER -> cols

\* An operation fails when a label it looks up is not there (KeyError), when
\* df.columns[0] does not exist, or when df.columns is set to a list of
\* another length.
Fails(cols, o) ==
    \/ Missing(cols, o) # {}
    \/ o.op = "add_from_first" /\ cols = <<>>
    \/ o.op = "set_columns" /\ Len(o.labels) # Len(cols)

\* One operation of a chapter; a failing operation stops the chapter.
LabStep(ch) ==
    /\ lab_err[ch] = <<>>
    /\ lab_pc[ch] <= Len(Ops(ch))
    /\ LET o == Ops(ch)[lab_pc[ch]]
       IN  IF Fails(lab_df[ch], o)
           THEN /\ lab_err' = [lab_err EXCEPT ![ch] = <<o.line>>]
                /\ UNCHANGED <<lab_pc, lab_df>>
           ELSE /\ lab_df' = [lab_df EXCEPT ![ch] = After(@, o)]
                /\ lab_pc' = [lab_pc EXCEPT ![ch] = @ + 1]
                /\ UNCHANGED lab_err
    /\ UNCHANGED <<bookVars, edaVars, inflVars, ccfVars, gdpVars, vacVars, rngVars, mdVars, tocVars>>

\* Fresh kernels: df is not bound in either chapter.
LabStart ==
    /\ lab_pc = [ch \in LabelChapters |-> 1]
    /\ lab_df = [ch \in LabelChapters |-> <<>>]
    /\ lab_err = [ch \in LabelChapters |-> <<>>]

NextLab == \E ch \in LabelChapters : LabStep(ch)

SampleSize == 3
MaxEntropy == 1

\* seed_for_prng = 78557
seed_for_prng == 78557

\* The generator is abstracted to a linear congruential generator on
\* StateBits bits: SeedSequence mixes the seed into the first state, a step
\* multiplies and adds, the output is the upper half of the state.
StateBits == 8
SeedSequence(seed) == (seed * 37 + 11) % Pow(2, StateBits)
Advance(state) == (state * 5 + 3) % Pow(2, StateBits)
Output(state) == state \div Pow(2, StateBits \div 2)

\* PCG64() without a seed: seeded from the operating system's entropy
PCG64_unseeded(seed, os_entropy) == SeedSequence(os_entropy)

\* PCG64(seed): the state is a function of the seed; PCG64(None) takes
\* entropy from the operating system
PCG64(seed, os_entropy) ==
    IF seed = <<>> THEN SeedSequence(os_entropy) ELSE SeedSequence(seed[1])

RECURSIVE exponential(_, _, _)
\* prng.exponential(size=n): n variates, each from one step of the generator
exponential(state, n, out) ==
    IF n = 0 THEN [state |-> state, data |-> out]
    ELSE exponential(Advance(state), n - 1, Append(out, Output(Advance(state))))

RECURSIVE RunRng(_, _, _, _)
\* The statements of a cell, as far as they touch prng: the statement that
\* binds prng makes the generator, a statement that reads prng draws a
\* sample and binds data.
RunRng(stmts, i, g, e) ==
    IF i > Len(stmts) THEN g
    ELSE IF "prng" \in stmts[i].binds
         THEN RunRng(stmts, i + 1,
                     [g EXCEPT !.state = <<PCG64(<<seed_for_prng>>, e)>>,
                               !.made = @ + 1], e)
    ELSE IF "prng" \in stmts[i].reads /\ g.state # <<>>
         THEN LET r == exponential(g.state[1], SampleSize, <<>>)
              IN  RunRng(stmts, i + 1,
                         [g EXCEPT !.state = <<r.state>>,
                                   !.draws = @ + SampleSize,
                                   !.data = r.data], e)
    ELSE RunRng(stmts, i + 1, g, e)

\* One cell of one execution of the Time Series notebook.
RngCell(r) ==
    /\ rng_pc[r] <= Len(TimeSeries_cells)
    /\ rng' = [rng EXCEPT ![r] =
                 RunRng(TimeSeries_cells[rng_pc[r]].stmts, 1, @, entropy[r])]
    /\ rng_pc' = [rng_pc EXCEPT ![r] = @ + 1]
    /\ UNCHANGED <<entropy, bookVars, edaVars, inflVars, ccfVars, gdpVars,
                   vacVars, labVars, mdVars, tocVars>>

\* Two fresh interpreters, no generator made and no sample drawn; the
\* entropy of the operating system differs from run to run.
RngStart ==
    /\ rng_pc = [r \in Runs |-> 1]
    /\ rng = [r \in Runs |->
                [state |-> <<>>, made |-> 0, draws |-> 0, data |-> <<>>]]
    /\ entropy \in [Runs -> 0..MaxEntropy]

NextRng == \E r \in Runs : RngCell(r)

\* C17: two top-to-bottom executions of the Time Series chapter from a fresh
\* interpreter draw the same sample data: the generator is created once
\* from the fixed seed 78557 and nothing draws from it before that cell.
C17_SameSample ==
    /\ (rng[1].data # <<>> /\ rng[2].data # <<>>) => rng[1].data = rng[2].data
    /\ \A r \in Runs :
         /\ rng[r].made <= 1
         /\ rng[r].state # <<>> => rng[r].made = 1
         /\ rng[r].data = <<>> =>
              /\ rng[r].draws = 0
              /\ rng[r].state \in {<<>>, <<SeedSequence(78557)>>}
         /\ rng[r].data # <<>> => rng[r].draws = Len(rng[r].data)

\* Both executions have finished with a sample, under different entropy.
C17_Witness ==
    /\ rng_pc[1] = Len(TimeSeries_cells) + 1
    /\ rng_pc[2] = Len(TimeSeries_cells) + 1
    /\ entropy[1] # entropy[2]
    /\ Len(rng[1].data) = SampleSize
    /\ Len(rng[2].data) = SampleSize
    /\ rng[1].state # <<SeedSequence(78557)>>

(***************************************************************************)
(* The book's sources: common-plots.md and _toc.yml                        *)
(***************************************************************************)

\* A line of common-plots.md.  A "fence" starts with a run of backticks:
\* their number, the directive in braces ("" on a bare fence) and the
\* argument of a glue: directive.  An "import" is `from myst_nb import glue`,
\* a "glue_call" is `glue("m_scatter", fig, display=False)`; every other
\* line is "text".
Line(kind, line, ticks, info, arg) ==
    [kind |-> kind, line |-> line, ticks |-> ticks, info |-> info, arg |-> arg]

\* The lines of common-plots.md that are fences, import glue or call it.
common_plots_lines ==
    << Line("fence", 24, 3, "code-cell", ""),
       Line("fence", 31, 3, "", ""),
       Line("fence", 33, 3, "code-cell", ""),
       Line("fence", 40, 3, "", ""),
       Line("fence", 46, 3, "code-cell", ""),
       Line("fence", 49, 3, "", ""),
       Line("fence", 51, 3, "code-cell", ""),
       Line("import", 53, 0, "", "glue"),
       Line("glue_call", 73, 0, "", "m_scatter"),
       Line("fence", 74, 3, "", ""),
       Line("fence", 77, 4, "panels", ""),
       Line("fence", 78, 3, "code-cell", ""),
       Line("fence", 95, 3, "", ""),
       Line("fence", 97, 3, "glue:", "m_scatter"),
       Line("fence", 98, 3, "", ""),
       Line("fence", 99, 4, "", ""),
       Line("fence", 101, 4, "panel", ""),
       Line("fence", 102, 3, "code-cell", ""),
       Line("fence", 120, 3, "", ""),
       Line("fence", 121, 4, "", ""),
       Line("fence", 125, 5, "tabbed", ""),
       Line("fence", 127, 4, "panels", ""),
       Line("fence", 129, 3, "code-block", ""),
       Line("fence", 146, 3, "", ""),
       Line("fence", 148, 3, "glue:", "m_scatter"),
       Line("fence", 149, 3, "", ""),
       Line("fence", 151, 4, "", ""),
       Line("fence", 153, 5, "", ""),
       Line("fence", 155, 4, "tabbed", ""),
       Line("fence", 157, 3, "code-block", ""),
       Line("fence", 159, 3, "", ""),
       Line("fence", 161, 4, "", ""),
       Line("fence", 163, 4, "tabbed", ""),
       Line("fence", 165, 3, "panels", ""),
       Line("fence", 171, 3, "", ""),
       Line("fence", 173, 4, "", "") >>

\* The file has 174 lines.
MdLen == 174

\* The fences with the tabbed directive of line 125 (and its closing fence,
\* line 153) written with four backticks, like the panels it encloses.
common_plots_fences_flat ==
    SelectSeq([i \in DOMAIN common_plots_lines |->
                 IF common_plots_lines[i].line \in {125, 153}
                 THEN [common_plots_lines[i] EXCEPT !.ticks = 4]
                 ELSE common_plots_lines[i]],
              LAMBDA l : l.kind = "fence")

\* The fence lines of the file.
common_plots_fences == SelectSeq(common_plots_lines, LAMBDA l : l.kind = "fence")

\* The code lines without the import of line 53.
common_plots_code_no_import ==
    SelectSeq(common_plots_lines, LAMBDA l : l.kind = "glue_call")

\* The code lines of the file that import glue or call it.
common_plots_code ==
    SelectSeq(common_plots_lines, LAMBDA l : l.kind \in {"import", "glue_call"})

\* Line k of the file.
LineAt(k) ==
    LET known == common_plots_fences \o common_plots_code
    IN  IF \E i \in DOMAIN known : known[i].line = k
        THEN known[CHOOSE i \in DOMAIN known : known[i].line = k]
        ELSE Line("text", k, 0, "", "")

\* A fence line, read with the fences of `stack` open.  A closing fence
\* needs at least as many backticks as the opening one: a bare fence closes
\* the outermost fence it can close, and with it whatever is still open
\* inside; where it can close nothing it opens a plain code block, unless it
\* is inside literal content.  A fence with a directive opens it, unless it
\* is inside literal content.  The content of {panels}, {panel} and {tabbed}
\* is parsed as markdown again, the content of any other fence is literal.
FenceStep(stack, l) ==
    LET top == stack[Len(stack)]
        literal == stack # <<>> /\ top.info \notin {"panels", "panel", "tabbed"}
        closable == {j \in DOMAIN stack : l.ticks >= stack[j].ticks}
    IN  IF l.info = "" /\ closable # {}
        THEN LET j == CHOOSE j \in closable : \A k \in closable : j <= k
             IN  [stack |-> SubSeq(stack, 1, j - 1),
                  bad |-> {[line |-> stack[k].line,
                            what |-> "closed by an enclosing fence"] :
                              k \in (j + 1)..Len(stack)}
                          \cup (IF l.ticks # stack[j].ticks
                                THEN {[line |-> l.line, what |-> "longer closing fence"]}
                                ELSE {})]
        ELSE IF literal THEN [stack |-> stack, bad |-> {}]
        ELSE [stack |-> Append(stack, l),
              bad |-> IF stack # <<>> /\ l.ticks >= top.ticks
                      THEN {[line |-> l.line,
                             what |-> "not fewer backticks than enclosing"]}
                      ELSE {}]

\* One line of common-plots.md; the content of a {code-cell} is executed.
MdLine ==
    /\ md_pc <= MdLen
    /\ LET l == LineAt(md_pc)
           in_cell == md_stack # <<>> /\ md_stack[Len(md_stack)].info = "code-cell"
           r == IF l.kind = "fence" THEN FenceStep(md_stack, l)
                ELSE [stack |-> md_stack, bad |-> {}]
           opened == l.kind = "fence" /\ Len(r.stack) > Len(md_stack)
       IN  /\ md_stack' = r.stack
           /\ md_names' = IF l.kind = "import" /\ in_cell
                          THEN md_names \cup {l.arg} ELSE md_names
           /\ md_glued' = IF l.kind = "glue_call" /\ in_cell /\ "glue" \in md_names
                          THEN md_glued \cup {l.arg} ELSE md_glued
           /\ md_bad' = md_bad \cup r.bad
                \cup (IF l.kind = "glue_call" /\ in_cell /\ "glue" \notin md_names
                      THEN {[line |-> l.line, what |-> "NameError: glue"]} ELSE {})
                \cup (IF opened /\ l.info = "glue:" /\ l.arg \notin md_glued
                      THEN {[line |-> l.line, what |-> "glue key not stored"]} ELSE {})
    /\ md_pc' = md_pc + 1
    /\ UNCHANGED <<tocVars, bookVars, edaVars, inflVars, ccfVars, gdpVars,
                   vacVars, labVars, rngVars>>

\* A line of _toc.yml: whether it is commented out, what it is (the root
\* file, a part, a key of a part, a chapter, or comment text) and its value.
Entry(line, commented, kind, name) ==
    [line |-> line, commented |-> commented, kind |-> kind, name |-> name]

\* The lines of _toc.yml.
toc_yml ==
    << Entry(1, TRUE, "comment", ""),
       Entry(2, TRUE, "comment", ""),
       Entry(3, TRUE, "comment", ""),
       Entry(4, FALSE, "root", "intro"),
       Entry(5, TRUE, "part", "Quickstart"),
       Entry(6, TRUE, "key", "numbered"),
       Entry(7, TRUE, "key", "chapters"),
       Entry(8, TRUE, "chapter", "coding-for-economists-quickstart"),
       Entry(9, FALSE, "part", "Coding"),
       Entry(10, FALSE, "key", "numbered"),
       Entry(11, FALSE, "key", "chapters"),
       Entry(12, FALSE, "chapter", "code-preliminaries"),
       Entry(13, FALSE, "chapter", "code-basics"),
       Entry(14, FALSE, "chapter", "code-advanced"),
       Entry(15, FALSE, "chapter", "code-where"),
       Entry(16, FALSE, "part", "Workflow"),
       Entry(17, FALSE, "key", "numbered"),
       Entry(18, FALSE, "key", "chapters"),
       Entry(19, FALSE, "chapter", "wrkflow-best-practice"),
       Entry(20, FALSE, "chapter", "wrkflow-advcd-best-practice"),
       Entry(21, FALSE, "chapter", "wrkflow-command-line"),
       Entry(22, TRUE, "chapter", "wrkflow-automating-outputs"),
       Entry(23, FALSE, "part", "Data"),
       Entry(24, FALSE, "key", "numbered"),
       Entry(25, FALSE, "key", "chapters"),
       Entry(26, FALSE, "chapter", "data-analysis-quickstart"),
       Entry(27, FALSE, "chapter", "data-intro"),
       Entry(28, FALSE, "chapter", "data-exploratory-analysis"),
       Entry(29, FALSE, "chapter", "data-read-and-write"),
       Entry(30, FALSE, "chapter", "data-extraction"),
       Entry(31, FALSE, "chapter", "data-sharing"),
       Entry(32, FALSE, "chapter", "data-advanced"),
       Entry(33, FALSE, "part", "Data Visualisation"),
       Entry(34, FALSE, "key", "numbered"),
       Entry(35, FALSE, "key", "chapters"),
       Entry(36, FALSE, "chapter", "vis-intro"),
       Entry(37, FALSE, "chapter", "vis-common-plots"),
       Entry(38, FALSE, "chapter", "vis-animation"),
       Entry(39, FALSE, "part", "Econometrics"),
       Entry(40, FALSE, "key", "numbered"),
       Entry(41, FALSE, "key", "chapters"),
       Entry(42, FALSE, "chapter", "econmt-probability-random"),
       Entry(43, FALSE, "chapter", "econmt-statistics"),
       Entry(44, FALSE, "chapter", "econmt-regression"),
       Entry(45, FALSE, "part", "Text Analysis"),
       Entry(46, FALSE, "key", "numbered"),
       Entry(47, FALSE, "key", "chapters"),
       Entry(48, FALSE, "chapter", "text-intro"),
       Entry(49, FALSE, "chapter", "text-nlp"),
       Entry(50, FALSE, "part", "Time"),
       Entry(51, FALSE, "key", "numbered"),
       Entry(52, FALSE, "key", "chapters"),
       Entry(53, FALSE, "chapter", "time-intro"),
       Entry(54, FALSE, "chapter", "time-series"),
       Entry(55, FALSE, "chapter", "time-fcasts-env"),
       Entry(56, FALSE, "part", "Geospatial"),
       Entry(57, FALSE, "key", "numbered"),
       Entry(58, FALSE, "key", "chapters"),
       Entry(59, FALSE, "chapter", "geo-intro"),
       Entry(60, FALSE, "chapter", "geo-vis"),
       Entry(61, FALSE, "part", "Mathematics with Code"),
       Entry(62, FALSE, "key", "numbered"),
       Entry(63, FALSE, "key", "chapters"),
       Entry(64, FALSE, "chapter", "maths-maths-coding"),
       Entry(65, FALSE, "part", "Automation"),
       Entry(66, FALSE, "key", "numbered"),
       Entry(67, FALSE, "key", "chapters"),
       Entry(68, FALSE, "chapter", "auto-research-outputs"),
       Entry(69, FALSE, "part", "Coming from ..."),
       Entry(70, FALSE, "key", "numbered"),
       Entry(71, FALSE, "key", "chapters"),
       Entry(72, FALSE, "chapter", "coming-from-stata"),
       Entry(73, FALSE, "chapter", "coming-from-matlab"),
       Entry(74, FALSE, "chapter", "coming-from-r"),
       Entry(75, FALSE, "chapter", "coming-from-excel"),
       Entry(76, FALSE, "part", "Elsewhere"),
       Entry(77, FALSE, "key", "numbered"),
       Entry(78, FALSE, "key", "chapters"),
       Entry(79, TRUE, "chapter", "further-resources"),
       Entry(80, FALSE, "chapter", "zreferences") >>

\* The entries with line 22 active and naming the chapter of line 21.
toc_active_line_22 ==
    SelectSeq([i \in DOMAIN toc_yml |->
                 IF toc_yml[i].line = 22
                 THEN Entry(22, FALSE, "chapter", "wrkflow-command-line")
                 ELSE toc_yml[i]],
              LAMBDA l : ~l.commented)

\* The active entries: what a YAML reader keeps of the file.
toc_active == SelectSeq(toc_yml, LAMBDA l : ~l.commented)

\* One active entry of _toc.yml: a file is listed, under the part that was
\* opened last if it is a chapter.
TocEntry ==
    /\ toc_pc <= Len(toc_active)
    /\ LET l == toc_active[toc_pc]
           n == Len(toc_parts)
       IN  /\ toc_seen' = IF l.kind \in {"root", "chapter"}
                          THEN Append(toc_seen, l.name) ELSE toc_seen
           /\ toc_parts' =
                IF l.kind = "part"
                THEN Append(toc_parts, [caption |-> l.name, chapters |-> 0])
                ELSE IF l.kind = "chapter" /\ n > 0
                THEN [toc_parts EXCEPT ![n].chapters = @ + 1]
                ELSE toc_parts
    /\ toc_pc' = toc_pc + 1
    /\ UNCHANGED <<mdVars, bookVars, edaVars, inflVars, ccfVars, gdpVars,
                   vacVars, labVars, rngVars>>

\* Nothing of either file has been read.
DocsStart ==
    /\ md_pc = 1 /\ md_stack = <<>> /\ md_bad = {} /\ md_names = {} /\ md_glued = {}
    /\ toc_pc = 1 /\ toc_seen = <<>> /\ toc_parts = <<>>

NextDocs == MdLine \/ TocEntry

\* C18: common-plots.md parses as valid structured content: every directive
\* or code fence that is opened is closed by a fence of the same number of
\* backticks, every directive nested inside another is opened with strictly
\* fewer backticks than the one enclosing it, and no fence is left open at
\* the end of the file.
C18_FencesBalanced ==
    /\ \A p \in md_bad :
         p.what \notin {"closed by an enclosing fence", "longer closing fence",
                        "not fewer backticks than enclosing"}
    /\ \A j \in 1..(Len(md_stack) - 1) : md_stack[j + 1].ticks < md_stack[j].ticks
    /\ \A j \in DOMAIN md_stack : md_stack[j].info # ""
    /\ md_pc > MdLen => md_stack = <<>>

\* The reader is on line 130, inside the code-block of the panels of the
\* first tab: three fences of 5, 4 and 3 backticks are open.
C18_Witness ==
    /\ md_pc = 130
    /\ Len(md_stack) = 3
    /\ md_stack[1].ticks = 5 /\ md_stack[1].info = "tabbed"
    /\ md_stack[2].ticks = 4 /\ md_stack[2].info = "panels"
    /\ md_stack[3].ticks = 3 /\ md_stack[3].info = "code-block"

\* C19: in common-plots.md every {glue:} reference names a key (m_scatter)
\* that a code cell earlier in document order has stored with glue(), and
\* the name glue is imported before that call.
C19_GlueResolved ==
    /\ \A p \in md_bad : p.what \notin {"NameError: glue", "glue key not stored"}
    /\ \A j \in DOMAIN md_stack :
         md_stack[j].info = "glue:" =>
            /\ md_stack[j].arg = "m_scatter"
            /\ md_stack[j].arg \in md_glued
    /\ md_glued # {} => "glue" \in md_names
    /\ md_pc > 73 => md_glued = {"m_scatter"}

\* The reader has just opened the second glue reference (line 148), inside
\* the panels of the first tab, with m_scatter stored.
C19_Witness ==
    /\ md_pc = 149
    /\ Len(md_stack) = 3
    /\ md_stack[3].info = "glue:"
    /\ md_stack[3].arg = "m_scatter"
    /\ md_glued = {"m_scatter"}

\* C20: in the table of contents every chapter is listed at most once among
\* the active entries, and every part keeps at least one active chapter
\* after the commented-out entries are ignored.
C20_TocListedOnce ==
    /\ \A i, j \in DOMAIN toc_seen : toc_seen[i] = toc_seen[j] => i = j
    /\ \A k \in 1..(Len(toc_parts) - 1) : toc_parts[k].chapters >= 1
    /\ toc_pc > Len(toc_active) =>
          \A k \in DOMAIN toc_parts : toc_parts[k].chapters >= 1

\* The whole table of contents has been read: 12 parts, the Workflow part
\* with three chapters and the Elsewhere part with one.
C20_Witness ==
    /\ toc_pc = Len(toc_active) + 1
    /\ Len(toc_parts) = 12
    /\ toc_parts[2].caption = "Workflow" /\ toc_parts[2].chapters = 3
    /\ toc_parts[12].caption = "Elsewhere" /\ toc_parts[12].chapters = 1
    /\ Len(toc_seen) = 35

(***************************************************************************)
(* Specifications                                                          *)
(***************************************************************************)

BookIdle ==
    /\ pc = <<>> /\ env = <<>> /\ status = <<>> /\ nb = <<>> /\ hook_ran = FALSE

EdaIdle ==
    /\ eda_pc = "idle" /\ csv_code = start_code
    /\ cal = [y |-> 2005, m |-> 1, d |-> 1] /\ df = NoFrame /\ report = <<>>

InflIdle == infl_pc = "idle" /\ cdf = <<>>

CcfIdle ==
    /\ ccf_pc = "idle" /\ ccf_x = <<>> /\ ccf_y = <<>> /\ lag_max = <<>> /\ ccf_res = <<>>

FirstIdle == BookIdle /\ EdaIdle /\ InflIdle /\ CcfIdle

\* Every part of the model but `part` is at rest.
MoreIdle(part) ==
    /\ part = "gdp" \/ (gdp_pc = <<>> /\ gdp_df = <<>>)
    /\ part = "vac" \/ (vac_pc = "idle" /\ vac_raw = <<>> /\ vac_df = <<>>)
    /\ part = "lab" \/ (lab_pc = <<>> /\ lab_df = <<>> /\ lab_err = <<>>)
    /\ part = "rng" \/ (rng_pc = <<>> /\ rng = <<>> /\ entropy = <<>>)
    /\ part = "docs" \/
         /\ md_pc = 0 /\ md_stack = <<>> /\ md_bad = {} /\ md_names = {}
         /\ md_glued = {}
         /\ toc_pc = 0 /\ toc_seen = <<>> /\ toc_parts = <<>>

InitBook == BookStart /\ EdaIdle /\ InflIdle /\ CcfIdle /\ MoreIdle("")
InitEda == BookIdle /\ EdaStart /\ InflIdle /\ CcfIdle /\ MoreIdle("")
InitInfl == BookIdle /\ EdaIdle /\ InflStart /\ CcfIdle /\ MoreIdle("")
InitCcf == BookIdle /\ EdaIdle /\ InflIdle /\ CcfStart /\ MoreIdle("")
InitGdp == FirstIdle /\ GdpStart /\ MoreIdle("gdp")
InitVac == FirstIdle /\ VacStart /\ MoreIdle("vac")
InitLab == FirstIdle /\ LabStart /\ MoreIdle("lab")
InitRng == FirstIdle /\ RngStart /\ MoreIdle("rng")
InitDocs == FirstIdle /\ DocsStart /\ MoreIdle("docs")

\* the chapters of the book executed in any interleaving, and the hook
SpecBook == InitBook /\ [][NextBook]_vars
\* the df pipeline of the Exploratory Data Analysis chapter
SpecEda == InitEda /\ [][NextEda]_vars
\* the inflation adjustment of the Time Series chapter
SpecInfl == InitInfl /\ [][NextInfl]_vars
\* ccf_stats of the Time Series chapter
SpecCcf == InitCcf /\ [][NextCcf]_vars
\* demeaning of the GDP series in the Time Series chapter, two data vintages
SpecGdp == InitGdp /\ [][NextGdp]_vars
\* the vacancies dataframe from the ONS response to the lead and lag columns
SpecVac == InitVac /\ [][NextVac]_vars
\* the column labels of df through the two data chapters, interleaved
SpecLab == InitLab /\ [][NextLab]_vars
\* two executions of the Time Series notebook and their random numbers
SpecRng == InitRng /\ [][NextRng]_vars
\* the book build reading common-plots.md and _toc.yml
SpecDocs == InitDocs /\ [][NextDocs]_vars
====
